---------------------------- MODULE Spec2Model ----------------------------
(***************************************************************************)
(* Model of program_10.py: descriptive statistics and streamflow metrics   *)
(* of a daily discharge record (ReadData, ClipData, the four metric        *)
(* calculators, GetAnnualStatistics, GetMonthlyStatistics and              *)
(* GetMonthlyAverages).                                                    *)
(*                                                                         *)
(* Numbers.  A float is modelled as an exact fraction <<n, d>> in lowest   *)
(* terms with d > 0; the three IEEE values that division by zero produces  *)
(* are <<0,0>> (NaN), <<1,0>> (+inf) and <<-1,0>> (-inf).  Rounding is not *)
(* modelled.  A date is the integer yyyymmdd, which orders like the ISO    *)
(* date strings the program slices with.                                   *)
(***************************************************************************)
EXTENDS Integers, Sequences, FiniteSets, TLC

VARIABLES pc, raw, DataDF, MissingValues, WYDataDF, MoDataDF,
          MonthlyAverages, clipIn, clipLog, Qvalues, result

vars == <<pc, raw, DataDF, MissingValues, WYDataDF, MoDataDF,
          MonthlyAverages, clipIn, clipLog, Qvalues, result>>

(***************************************************************************)
(* Bounds of the model.                                                    *)
(***************************************************************************)
\* longest input handed to CalcTqmean, CalcRBindex, CalcExceed3TimesMedian
MaxQLen == 5
\* longest input handed to Calc7Q
Max7QLen == 9
\* most observations in a file read by ReadData
MaxObs == 3
\* most observations in a series handed to ClipData on its own
MaxClipObs == 3

(***************************************************************************)
(* Program constants.                                                      *)
(***************************************************************************)
\* range(1970,2020)
FirstWY == 1970
StopWY == 2020
\* rolling(window=7)
Window == 7
\* 3*Qvalues.median()
Times == 3
\* the site number in the file names of the driver
SiteNo == 3335000

(***************************************************************************)
(* Exact arithmetic standing for the floats.                               *)
(***************************************************************************)
NaN == <<0, 0>>

Abs(i) == IF i < 0 THEN -i ELSE i

Sign(i) == IF i < 0 THEN -1 ELSE IF i > 0 THEN 1 ELSE 0

RECURSIVE GCD(_, _)
GCD(a, b) == IF b = 0 THEN a ELSE GCD(b, a % b)

\* n / d as numpy divides: x/0 is +-inf, 0/0 is NaN
Rat(n, d) ==
    IF d = 0 THEN <<Sign(n), 0>>
    ELSE LET g == GCD(Abs(n), Abs(d))
         IN  <<Sign(d) * (n \div g), Abs(d) \div g>>

IsNaN(x) == x = NaN

\* a < b on floats; every comparison with NaN is false
RatLess(a, b) == ~IsNaN(a) /\ ~IsNaN(b) /\ a[1] * b[2] < b[1] * a[2]

\* a discharge value read from the file
Q(v) == <<v, 1>>

RECURSIVE SeqSum(_)
SeqSum(s) == IF s = <<>> THEN 0 ELSE s[1] + SeqSum(Tail(s))

(***************************************************************************)
(* pandas Series operations on a sequence of discharges.                   *)
(***************************************************************************)
isna(Qs) == Len(SelectSeq(Qs, IsNaN))

dropna(Qs) == SelectSeq(Qs, LAMBDA q : ~IsNaN(q))

\* the non-null values as integers (pandas reductions skip nulls)
Values(Qs) == LET D == dropna(Qs) IN [i \in 1..Len(D) |-> D[i][1]]

Mean(Qs) == LET x == Values(Qs) IN Rat(SeqSum(x), Len(x))

Max(Qs) ==
    LET x == Values(Qs)
    IN  IF x = <<>> THEN NaN
        ELSE Q(CHOOSE m \in {x[i] : i \in 1..Len(x)} :
                   \A j \in 1..Len(x) : x[j] <= m)

Median(Qs) ==
    LET x == SortSeq(Values(Qs), LAMBDA a, b : a < b)
        n == Len(x)
    IN  IF n = 0 THEN NaN
        ELSE IF n % 2 = 1 THEN Q(x[(n + 1) \div 2])
        ELSE Rat(x[n \div 2] + x[n \div 2 + 1], 2)

\* Series.std() is the square root of this (ddof = 1); NaN below 2 values
Variance(Qs) ==
    LET x == Values(Qs)
        n == Len(x)
        s == SeqSum(x)
        ss == SeqSum([i \in 1..n |-> x[i] * x[i]])
    IN  IF n < 2 THEN NaN ELSE Rat(n * ss - s * s, n * (n - 1))

\* std()/mean*100, held as sign * value^2, which determines the value
CoeffVar(Qs) ==
    LET v == Variance(Qs)
        m == Mean(Qs)
    IN  IF IsNaN(v) \/ IsNaN(m) THEN NaN
        ELSE Rat(Sign(m[1]) * v[1] * m[2] * m[2] * 10000, v[2] * m[1] * m[1])

\* scipy.stats.skew(a) with its defaults (bias=True, nan_policy='propagate'),
\* held as sign * value^2: a null anywhere in a gives NaN, and so does an
\* empty a; constant data gives 0
Skew(Qs) ==
    LET n == Len(Qs)
        s == SeqSum([i \in 1..n |-> Qs[i][1]])
        dev == [i \in 1..n |-> n * Qs[i][1] - s]
        A == SeqSum([i \in 1..n |-> dev[i] * dev[i]])
        B == SeqSum([i \in 1..n |-> dev[i] * dev[i] * dev[i]])
    IN  IF n = 0 \/ isna(Qs) > 0 THEN NaN
        ELSE IF A = 0 THEN Q(0)
        ELSE Rat(Sign(B) * B * B * n, A * A * A)

(***************************************************************************)
(* The metric calculators.                                                 *)
(***************************************************************************)
\* CalcTqmean with >= where the code has >
CalcTqmean_NotStrict(Qvals) ==
    LET Qv == dropna(Qvals)
        T == Len(Qv)
        m == Mean(Qv)
    IN  Rat(Cardinality({i \in 1..T : ~IsNaN(m) /\ ~RatLess(Qv[i], m)}), T)

CalcTqmean(Qvals) ==
    LET Qv == dropna(Qvals)
        T == Len(Qv)
        m == Mean(Qv)
    IN  Rat(Cardinality({i \in 1..T : RatLess(m, Qv[i])}), T)

\* CalcRBindex that skips the day-to-day change across a removed null
CalcRBindex_Gaps(Qvals) ==
    LET n == Len(Qvals)
        sum_abs == SeqSum([i \in 1..(n - 1) |->
                      IF IsNaN(Qvals[i]) \/ IsNaN(Qvals[i + 1]) THEN 0
                      ELSE Abs(Qvals[i + 1][1] - Qvals[i][1])])
    IN  Rat(sum_abs, SeqSum(Values(Qvals)))

CalcRBindex(Qvals) ==
    LET Qv == Values(Qvals)
        sum_abs == SeqSum([i \in 1..(Len(Qv) - 1) |-> Abs(Qv[i + 1] - Qv[i])])
    IN  Rat(sum_abs, SeqSum(Qv))

\* rolling(window=7, min_periods=1): short windows at the start count too
RollingMean_MinPeriods1(Qv) ==
    [i \in 1..Len(Qv) |->
        LET w == IF i < Window THEN i ELSE Window
        IN  Rat(SeqSum([k \in 1..w |-> Qv[i - w + k][1]]), w)]

\* Series.rolling(window=7).mean(): entry i is the mean of entries
\* i-6..i, and NaN while fewer than 7 entries are available
RollingMean(Qv) ==
    [i \in 1..Len(Qv) |->
        IF i < Window THEN NaN
        ELSE Rat(SeqSum([k \in 1..Window |-> Qv[i - Window + k][1]]), Window)]

\* Series.min(): the least non-null entry, NaN when there is none
Min(Rs) ==
    LET D == dropna(Rs)
    IN  IF D = <<>> THEN NaN
        ELSE CHOOSE m \in {D[i] : i \in 1..Len(D)} :
                 \A j \in 1..Len(D) : ~RatLess(D[j], m)

Calc7Q(Qvals) == Min(RollingMean(dropna(Qvals)))

\* CalcExceed3TimesMedian with >= where the code has >
CalcExceed3TimesMedian_NotStrict(Qvals) ==
    LET Qv == dropna(Qvals)
        med == Median(Qv)
        m3 == Rat(Times * med[1], med[2])
    IN  Q(Cardinality({i \in 1..Len(Qv) : ~IsNaN(m3) /\ ~RatLess(Qv[i], m3)}))

CalcExceed3TimesMedian(Qvals) ==
    LET Qv == dropna(Qvals)
        med == Median(Qv)
        m3 == Rat(Times * med[1], med[2])
    IN  Q(Cardinality({i \in 1..Len(Qv) : RatLess(m3, Qv[i])}))

(***************************************************************************)
(* Dates, and the DataFrame: a sequence of observations in date order.     *)
(***************************************************************************)
Year(d) == d \div 10000

Month(d) == (d \div 100) % 100

\* the date of year y, month m, day d
Date(y, m, d) == y * 10000 + m * 100 + d

\* the water year a date falls in: it starts on October 1
WaterYear(d) == IF Month(d) >= 10 THEN Year(d) + 1 ELSE Year(d)

\* str(WY-1)+"-10-01" and str(WY)+"-09-30"
WYStart(WY) == Date(WY - 1, 10, 1)

WYEnd(WY) == Date(WY, 9, 30)

\* months counted from year 0, and the first day of such a month
MonthIndex(d) == Year(d) * 12 + Month(d) - 1

MonthStart(k) == Date(k \div 12, (k % 12) + 1, 1)

Discharge(df) == [i \in 1..Len(df) |-> df[i].Discharge]

\* df[startDate:endDate] on a sorted DatetimeIndex: both ends inclusive
Slice(df, startDate, endDate) ==
    SelectSeq(df, LAMBDA o : startDate <= o.Date /\ o.Date <= endDate)

\* ReadData that keeps the rows with Discharge >= 0, which drops the nulls
ReadData_KeepNonNegative(rawDF) ==
    LET df == SelectSeq(rawDF, LAMBDA o : ~IsNaN(o.Discharge)
                                        /\ ~RatLess(o.Discharge, Q(0)))
    IN  [DataDF |-> df, MissingValues |-> isna(Discharge(df))]

\* ReadData after read_csv and set_index: rawDF is the parsed frame
ReadData(rawDF) ==
    LET df == SelectSeq(rawDF, LAMBDA o : ~RatLess(o.Discharge, Q(0)))
    IN  [DataDF |-> df, MissingValues |-> isna(Discharge(df))]

\* ClipData whose end date is excluded
ClipData_EndExcluded(df, startDate, endDate) ==
    LET c == SelectSeq(df, LAMBDA o : startDate <= o.Date /\ o.Date < endDate)
    IN  [DataDF |-> c, MissingValues |-> isna(Discharge(c))]

ClipData(df, startDate, endDate) ==
    LET c == Slice(df, startDate, endDate)
    IN  [DataDF |-> c, MissingValues |-> isna(Discharge(c))]

(***************************************************************************)
(* GetAnnualStatistics.                                                    *)
(***************************************************************************)
WYrange == FirstWY..(StopWY - 1)

\* the loop body: the row of water year WY
AnnualRow(df, WY) ==
    LET w == Discharge(Slice(df, WYStart(WY), WYEnd(WY)))
    IN  [site_no |-> df[1].site_no,
         MeanFlow |-> Mean(w),
         PeakFlow |-> Max(w),
         Median |-> Median(w),
         CoeffVar |-> CoeffVar(w),
         Skew |-> Skew(w),
         TQmean |-> CalcTqmean(w),
         RBindex |-> CalcRBindex(w),
         SevenQ |-> Calc7Q(w),
         Exceed3xMedian |-> CalcExceed3TimesMedian(w)]

\* DataDF.resample('AS-OCT').mean().index: the October 1 that starts each
\* water year from that of the first row to that of the last row
AnnualIndex(df) ==
    LET first == WaterYear(df[1].Date)
        last == WaterYear(df[Len(df)].Date)
    IN  [i \in 1..(last - first + 1) |-> WYStart(first + i - 1)]

GetAnnualStatistics(df) ==
    IF df = <<>>
    THEN \* DataDF['site_no'][0]
         [error |-> "IndexError", rows |-> <<>>]
    ELSE LET n == Cardinality(WYrange)
             index == AnnualIndex(df)
         IN  IF Len(index) # n
             THEN \* WYDataDF.index = ...: Length mismatch
                  [error |-> "ValueError", rows |-> <<>>]
             ELSE [error |-> "none",
                   rows |-> [i \in 1..n |->
                               [Date |-> index[i],
                                stats |-> AnnualRow(df, FirstWY + i - 1)]]]

(***************************************************************************)
(* GetMonthlyStatistics.                                                   *)
(***************************************************************************)
\* the rows of df whose date falls in the month with index k
MonthRows(df, k) == SelectSeq(df, LAMBDA o : MonthIndex(o.Date) = k)

MonthlyRow(df, k) ==
    LET w == Discharge(MonthRows(df, k))
    IN  [site_no |-> Q(df[1].site_no),
         MeanFlow |-> Mean(w),
         CoeffVar |-> CoeffVar(w),
         TQmean |-> CalcTqmean(w),
         RBindex |-> CalcRBindex(w)]

GetMonthlyStatistics(df) ==
    IF df = <<>>
    THEN \* DataDF['site_no'][0]
         [error |-> "IndexError", rows |-> <<>>]
    ELSE LET first == MonthIndex(df[1].Date)
             last == MonthIndex(df[Len(df)].Date)
         IN  [error |-> "none",
              rows |-> [i \in 1..(last - first + 1) |->
                          [Date |-> MonthStart(first + i - 1),
                           stats |-> MonthlyRow(df, first + i - 1)]]]

(***************************************************************************)
(* GetMonthlyAverages.                                                     *)
(***************************************************************************)
RatAdd(a, b) == Rat(a[1] * b[2] + b[1] * a[2], a[2] * b[2])

\* the sum of entries lo..hi of rs
RECURSIVE RatSumOf(_, _, _)
RatSumOf(rs, lo, hi) ==
    IF lo > hi THEN Q(0)
    ELSE IF lo = hi THEN rs[lo]
    ELSE LET mid == (lo + hi) \div 2
         IN  RatAdd(RatSumOf(rs, lo, mid), RatSumOf(rs, mid + 1, hi))

RatSum(rs) == RatSumOf(rs, 1, Len(rs))

\* mean() of a column: nulls are skipped, and no value left gives NaN
ColumnMean(col) ==
    LET D == dropna(col)
        t == RatSum(D)
    IN  IF D = <<>> THEN NaN ELSE Rat(t[1], t[2] * Len(D))

\* mean() of the 'Coeff Var' column.  Its entries are held as squares, and a
\* mean of square roots is no fraction: the mean is held as the non-null
\* entries it averages, in row order (none: NaN)
ColumnMeanOfRoots(col) == dropna(col)

\* the rows of the table whose index has month number m
GroupRows(table, m) == SelectSeq(table.rows, LAMBDA r : Month(r.Date) = m)

\* group keys that are the twelve month numbers whatever the table holds
GroupKeys_AllTwelve(table) == 1..12

\* the keys of groupby(lambda x: x.month): the month numbers that occur
GroupKeys(table) == {Month(table.rows[i].Date) : i \in 1..Len(table.rows)}

\* a set of integers in ascending order
RECURSIVE Ascending(_)
Ascending(S) ==
    IF S = {} THEN <<>>
    ELSE LET m == CHOOSE x \in S : \A y \in S : x <= y
         IN  <<m>> \o Ascending(S \ {m})

GetMonthlyAverages(table) ==
    LET keys == Ascending(GroupKeys(table))
        Column(g, f) == [i \in 1..Len(g) |-> g[i].stats[f]]
    IN  [error |-> "none",
         rows |-> [i \in 1..Len(keys) |->
                     LET g == GroupRows(table, keys[i])
                     IN  [Date |-> keys[i],
                          stats |->
                            [site_no |-> ColumnMean(Column(g, "site_no")),
                             MeanFlow |-> ColumnMean(Column(g, "MeanFlow")),
                             CoeffVar |-> ColumnMeanOfRoots(Column(g, "CoeffVar")),
                             TQmean |-> ColumnMean(Column(g, "TQmean")),
                             RBindex |-> ColumnMean(Column(g, "RBindex"))]]]]

(***************************************************************************)
(* Values of the variables before any call.                                *)
(***************************************************************************)
NoResult == [fn |-> "none", val |-> NaN]

\* a table that no call has produced yet
NoTable == [error |-> "not called", rows |-> <<>>]

Idle ==
    /\ raw = <<>>
    /\ DataDF = <<>>
    /\ MissingValues = 0
    /\ WYDataDF = NoTable
    /\ MoDataDF = NoTable
    /\ MonthlyAverages = NoTable
    /\ clipIn = <<>>
    /\ clipLog = <<>>

(***************************************************************************)
(* The files the program may be given, and its calls.                      *)
(***************************************************************************)
\* days an observation may fall on: the first two days of water year 1970
\* and a day of its second month, the last day of water year 2019 and the
\* day after
ObsDates == {Date(1969, 10, 1), Date(1969, 10, 2), Date(1969, 11, 2),
             Date(2019, 9, 30), Date(2019, 10, 1)}

\* discharges in a file: 'Eqp' or a blank (null), a negative value, values
RawFlows == {NaN, Q(-1), Q(1), Q(3)}

\* every series of at most n observations on distinct days of dates, in date
\* order, with discharges drawn from flows
SeriesOver(dates, flows, n) ==
    UNION {LET ds == Ascending(D)
           IN  {[i \in 1..Len(ds) |->
                    [Date |-> ds[i], site_no |-> SiteNo, Discharge |-> f[i]]] :
                 f \in [1..Len(ds) -> flows]} :
           D \in {E \in SUBSET dates : Cardinality(E) <= n}}

\* the period of the driver, and one that keeps every observation
Periods == {<<Date(1969, 10, 1), Date(2019, 9, 30)>>,
            <<Date(1969, 1, 1), Date(2020, 12, 31)>>}

Init ==
    /\ pc = "start"
    /\ Idle
    /\ Qvalues = <<>>
    /\ result = NoResult

DoReadData ==
    /\ pc = "start"
    /\ \E rawDF \in SeriesOver(ObsDates, RawFlows, MaxObs) :
          /\ raw' = rawDF
          /\ DataDF' = ReadData(rawDF).DataDF
          /\ MissingValues' = ReadData(rawDF).MissingValues
    /\ pc' = "read"
    /\ UNCHANGED <<WYDataDF, MoDataDF, MonthlyAverages, clipIn, clipLog,
                   Qvalues, result>>

\* the frame ReadData parsed is a local of ReadData: the driver keeps only
\* what ReadData returned, so raw is gone once the driver goes on
DoClipData ==
    /\ pc = "read"
    /\ \E p \in Periods :
          /\ DataDF' = ClipData(DataDF, p[1], p[2]).DataDF
          /\ MissingValues' = ClipData(DataDF, p[1], p[2]).MissingValues
    /\ raw' = <<>>
    /\ pc' = "clipped"
    /\ UNCHANGED <<WYDataDF, MoDataDF, MonthlyAverages, clipIn, clipLog,
                   Qvalues, result>>

\* an exception ends the run
After(table, stage) == IF table.error = "none" THEN stage ELSE "raised"

DoAnnualStatistics ==
    /\ pc = "clipped"
    /\ WYDataDF' = GetAnnualStatistics(DataDF)
    /\ pc' = After(WYDataDF', "annual")
    /\ UNCHANGED <<raw, DataDF, MissingValues, MoDataDF, MonthlyAverages,
                   clipIn, clipLog, Qvalues, result>>

\* the driver calls it after GetAnnualStatistics; a caller that imports the
\* functions may call it on the clipped series directly
DoMonthlyStatistics ==
    /\ pc \in {"clipped", "annual"}
    /\ MoDataDF' = GetMonthlyStatistics(DataDF)
    /\ pc' = After(MoDataDF', "monthly")
    /\ UNCHANGED <<raw, DataDF, MissingValues, WYDataDF, MonthlyAverages,
                   clipIn, clipLog, Qvalues, result>>

DoMonthlyAverages ==
    /\ pc = "monthly"
    /\ MonthlyAverages' = GetMonthlyAverages(MoDataDF)
    /\ pc' = "done"
    /\ UNCHANGED <<raw, DataDF, MissingValues, WYDataDF, MoDataDF,
                   clipIn, clipLog, Qvalues, result>>

Next ==
    \/ DoReadData
    \/ DoClipData
    \/ DoAnnualStatistics
    \/ DoMonthlyStatistics
    \/ DoMonthlyAverages

Spec == Init /\ [][Next]_vars

(***************************************************************************)
(* ClipData on its own: a series is drawn and clipped twice.               *)
(***************************************************************************)
ClipFlows == {NaN, Q(1)}

\* days an observation of such a series may fall on
ClipObsDates == {Date(1969, 9, 30), Date(1969, 10, 1), Date(1969, 10, 2),
                 Date(1970, 9, 30), Date(2019, 9, 30), Date(2019, 10, 1)}

\* dates a clip may start or end on; January 1, 1970 is no observation day
ClipDates == {Date(1969, 9, 30), Date(1969, 10, 1), Date(1970, 1, 1),
              Date(1970, 9, 30), Date(2019, 9, 30)}

InitClip ==
    /\ pc = "series"
    /\ DataDF \in SeriesOver(ClipObsDates, ClipFlows, MaxClipObs)
    /\ clipIn = DataDF
    /\ clipLog = <<>>
    /\ MissingValues = isna(Discharge(DataDF))
    /\ raw = <<>>
    /\ WYDataDF = NoTable
    /\ MoDataDF = NoTable
    /\ MonthlyAverages = NoTable
    /\ Qvalues = <<>>
    /\ result = NoResult

Clip ==
    /\ pc = "series"
    /\ Len(clipLog) < 2
    /\ \E a, b \in ClipDates :
          /\ a <= b
          /\ DataDF' = ClipData(DataDF, a, b).DataDF
          /\ MissingValues' = ClipData(DataDF, a, b).MissingValues
          /\ clipLog' = Append(clipLog, <<a, b>>)
    /\ UNCHANGED <<pc, raw, WYDataDF, MoDataDF, MonthlyAverages, clipIn,
                   Qvalues, result>>

NextClip == Clip

SpecClip == InitClip /\ [][NextClip]_vars

(***************************************************************************)
(* Properties of ReadData and ClipData.                                    *)
(***************************************************************************)
Negative(q) == q[2] # 0 /\ q[1] < 0

Nulls(df) == Cardinality({i \in 1..Len(df) : IsNaN(df[i].Discharge)})

\* df holds exactly the rows of src whose positions are in keep, in order
KeepsRows(df, src, keep) ==
    /\ Len(df) = Cardinality(keep)
    /\ \A i \in keep : df[Cardinality({j \in keep : j <= i})] = src[i]

\* C8: ReadData's cleaning removes every observation whose discharge is
\* negative and keeps every other one, nulls included, in the original order;
\* the count returned is the number of null discharges in the returned
\* series, and 0 for empty input.
C8_ReadDataCleans ==
    pc = "read" =>
        /\ KeepsRows(DataDF, raw,
                     {i \in 1..Len(raw) : ~Negative(raw[i].Discharge)})
        /\ MissingValues = Nulls(DataDF)
        /\ raw = <<>> => DataDF = <<>> /\ MissingValues = 0

\* ReadData has cleaned a file holding a null, then a negative value, then a
\* value
C8_Witness ==
    /\ pc = "read"
    /\ Len(raw) = 3
    /\ IsNaN(raw[1].Discharge)
    /\ Negative(raw[2].Discharge)
    /\ RatLess(Q(0), raw[3].Discharge)
    /\ DataDF = <<raw[1], raw[3]>>
    /\ MissingValues = 1

\* the second clip lies within the first
Nested == /\ Len(clipLog) = 2
          /\ clipLog[1][1] <= clipLog[2][1]
          /\ clipLog[2][1] <= clipLog[2][2]
          /\ clipLog[2][2] <= clipLog[1][2]

\* C2: for a <= c <= d <= b, ClipData(ClipData(S, a, b), c, d) returns the
\* rows and the missing-value count of ClipData(S, c, d); both ends are
\* inclusive, and a range that matches no date gives an empty series with
\* count 0.
C2_ClipTwice ==
    Nested =>
        LET c == clipLog[2][1]
            d == clipLog[2][2]
            direct == ClipData(clipIn, c, d)
            inside == {i \in 1..Len(clipIn) :
                          c <= clipIn[i].Date /\ clipIn[i].Date <= d}
        IN  /\ DataDF = direct.DataDF
            /\ MissingValues = direct.MissingValues
            /\ KeepsRows(DataDF, clipIn, inside)
            /\ MissingValues = Nulls(DataDF)
            /\ inside = {} => DataDF = <<>> /\ MissingValues = 0

\* a series of three was clipped to a range that dropped its first row, then
\* to a smaller range that dropped its last row and ends on the day of the
\* row that is left, whose discharge is null
C2_Witness ==
    /\ Nested
    /\ clipLog[1][1] < clipLog[2][1] /\ clipLog[2][2] < clipLog[1][2]
    /\ Len(clipIn) = 3
    /\ clipIn[1].Date < clipLog[1][1]
    /\ clipLog[2][2] < clipIn[3].Date /\ clipIn[3].Date <= clipLog[1][2]
    /\ DataDF = <<clipIn[2]>>
    /\ clipIn[2].Date = clipLog[2][2]
    /\ MissingValues = 1

(***************************************************************************)
(* Properties of the aggregators.                                          *)
(***************************************************************************)
\* GetAnnualStatistics has been called on a series with rows
AnnualCalled == WYDataDF.error # "not called" /\ DataDF # <<>>

\* C1: GetAnnualStatistics returns, for every non-empty date-sorted series,
\* whatever dates it spans, a table of exactly 50 rows, one for each water
\* year 1970..2019 (indexed by the October 1 that starts it), without
\* raising an error.
C1_FiftyRows ==
    AnnualCalled =>
        /\ WYDataDF.error = "none"
        /\ Len(WYDataDF.rows) = 50
        /\ \A i \in 1..Len(WYDataDF.rows) :
              WYDataDF.rows[i].Date = WYStart(FirstWY + i - 1)

\* no observation of df with a non-null discharge lies in [lo, hi]
EmptyWindow(df, lo, hi) ==
    \A i \in 1..Len(df) :
        (lo <= df[i].Date /\ df[i].Date <= hi) => IsNaN(df[i].Discharge)

\* C4: for every water year or month with no non-null observation the
\* aggregators raise no error and every statistic of its row is NaN.
C4_EmptyWindowNaN ==
    /\ WYDataDF.error = "none" =>
          \A i \in 1..Len(WYDataDF.rows) :
              LET WY == FirstWY + i - 1
                  st == WYDataDF.rows[i].stats
              IN  EmptyWindow(DataDF, WYStart(WY), WYEnd(WY)) =>
                      \A f \in {"MeanFlow", "PeakFlow", "Median", "CoeffVar",
                                "Skew", "TQmean", "RBindex", "SevenQ",
                                "Exceed3xMedian"} : IsNaN(st[f])
    /\ MoDataDF.error = "none" =>
          \A i \in 1..Len(MoDataDF.rows) :
              LET first == MoDataDF.rows[i].Date
                  st == MoDataDF.rows[i].stats
              IN  EmptyWindow(DataDF, first, first + 30) =>
                      \A f \in {"MeanFlow", "CoeffVar", "TQmean", "RBindex"} :
                          IsNaN(st[f])

\* C5: the Skew of a water year is computed over the window's non-null
\* discharges only: a window with nulls gets the Skew of the same window
\* with the nulls removed.
C5_SkewOverNonNull ==
    WYDataDF.error = "none" =>
        \A i \in 1..Len(WYDataDF.rows) :
            LET WY == FirstWY + i - 1
                w == Discharge(Slice(DataDF, WYStart(WY), WYEnd(WY)))
            IN  WYDataDF.rows[i].stats.Skew = Skew(dropna(w))

\* the entries of column f of the rows g, nulls left out
Known(g, f) ==
    LET rs == SelectSeq(g, LAMBDA r : ~IsNaN(r.stats[f]))
    IN  [k \in 1..Len(rs) |-> rs[k].stats[f]]

\* a is the mean of the fractions xs (NaN when there is none)
IsMeanOf(a, xs) ==
    LET total == RatSum(xs)
    IN  IF xs = <<>> THEN IsNaN(a)
        ELSE a[2] > 0 /\ a[1] * total[2] * Len(xs) = total[1] * a[2]

\* row r of MonthlyAverages is the column-wise mean of the rows of MoDataDF
\* whose month number is r.Date
IsMonthMean(r) ==
    LET g == SelectSeq(MoDataDF.rows, LAMBDA x : Month(x.Date) = r.Date)
    IN  /\ \A f \in {"site_no", "MeanFlow", "TQmean", "RBindex"} :
              IsMeanOf(r.stats[f], Known(g, f))
        /\ r.stats.CoeffVar = Known(g, "CoeffVar")

Flows == {NaN, Q(-1), Q(0), Q(1), Q(3)}

LowFlows == {NaN, Q(1), Q(2)}

SeqsUpTo(S, n) == UNION {[1..k -> S] : k \in 0..n}

InitMetric ==
    /\ pc = "input"
    /\ Qvalues \in SeqsUpTo(Flows, MaxQLen)
    /\ result = NoResult
    /\ Idle

Init7Q ==
    /\ pc = "input"
    /\ Qvalues \in SeqsUpTo(LowFlows, Max7QLen)
    /\ result = NoResult
    /\ Idle

Apply(fn, val) ==
    /\ pc = "input"
    /\ pc' = "applied"
    /\ result' = [fn |-> fn, val |-> val]
    /\ UNCHANGED <<raw, DataDF, MissingValues, WYDataDF, MoDataDF,
                   MonthlyAverages, clipIn, clipLog, Qvalues>>

ApplyTqmean == Apply("CalcTqmean", CalcTqmean(Qvalues))

ApplyRBindex == Apply("CalcRBindex", CalcRBindex(Qvalues))

Apply7Q == Apply("Calc7Q", Calc7Q(Qvalues))

ApplyExceed3TimesMedian ==
    Apply("CalcExceed3TimesMedian", CalcExceed3TimesMedian(Qvalues))

NextMetric == ApplyTqmean \/ ApplyRBindex \/ ApplyExceed3TimesMedian

SpecMetric == InitMetric /\ [][NextMetric]_vars

Next7Q == Apply7Q

Spec7Q == Init7Q /\ [][Next7Q]_vars

(***************************************************************************)
(* Properties of the calculators.                                          *)
(***************************************************************************)
AllEqual(x) == \A i, j \in 1..Len(x) : x[i] = x[j]

RECURSIVE PathLength(_)
PathLength(x) ==
    IF Len(x) < 2 THEN 0 ELSE Abs(x[2] - x[1]) + PathLength(Tail(x))

Above3Median(x) ==
    LET s == SortSeq(x, LAMBDA a, b : a < b)
        n == Len(x)
    IN  IF n % 2 = 1
        THEN {i \in 1..n : x[i] > 3 * s[(n + 1) \div 2]}
        ELSE {i \in 1..n : 2 * x[i] > 3 * (s[n \div 2] + s[n \div 2 + 1])}

\* C10: CalcExceed3TimesMedian returns the number of non-null values
\* strictly greater than 3 times the median of the non-null values, so
\* [1,1,1,5] gives 1.
C10_Exceed3TimesMedian ==
    /\ CalcExceed3TimesMedian(<<Q(1), Q(1), Q(1), Q(5)>>) = Q(1)
    /\ result.fn = "CalcExceed3TimesMedian" =>
        LET x == Values(Qvalues)
        IN  result.val = Q(IF x = <<>> THEN 0 ELSE Cardinality(Above3Median(x)))

\* CalcExceed3TimesMedian was applied to a series that holds a value equal to
\* 3 times its median and a null, and counted something
C10_Witness ==
    /\ result.fn = "CalcExceed3TimesMedian"
    /\ isna(Qvalues) > 0
    /\ Median(Qvalues) = Q(1)
    /\ \E i \in 1..Len(Qvalues) : Qvalues[i] = Q(3)
    /\ result.val = Q(0)

\* the sum of the 7 entries of x that start at k
WindowSum(x, k) == SeqSum([j \in 1..Window |-> x[k + j - 1]])

\* C6: with at least 7 non-null values Calc7Q returns the least mean of 7
\* consecutive entries of the null-removed sequence (4 for [1..7]); shorter
\* windows give no candidate, and fewer than 7 non-null values give NaN.
C6_7Q ==
    /\ Calc7Q(<<Q(1), Q(2), Q(3), Q(4), Q(5), Q(6), Q(7)>>) = Q(4)
    /\ result.fn = "Calc7Q" =>
        LET x == Values(Qvalues)
            starts == 1..(Len(x) - Window + 1)
            r == result.val
        IN  IF Len(x) < Window THEN IsNaN(r)
            ELSE /\ r[2] > 0
                 /\ \E k \in starts : r[1] * Window = WindowSum(x, k) * r[2]
                 /\ \A k \in starts : r[1] * Window <= WindowSum(x, k) * r[2]

\* Calc7Q was applied to a series with a null and two windows of 7 whose
\* means differ, the later one being the lower
C6_Witness ==
    /\ result.fn = "Calc7Q"
    /\ isna(Qvalues) > 0
    /\ Len(Values(Qvalues)) > Window
    /\ WindowSum(Values(Qvalues), 2) < WindowSum(Values(Qvalues), 1)
    /\ result.val = Rat(WindowSum(Values(Qvalues), 2), Window)

=============================================================================
